---- MODULE Spec2Model ----
(***************************************************************************)
(* Model of the hooks of hookify-react.  The first part is useHistory     *)
(* (src/src/hooks/state-management/useHistory.ts, lines 7-68); the hooks   *)
(* useUpdatedEffect, useInterval, useTimeout, useDebounce, useGeoLocation, *)
(* useFormState, useArray, useOnlineStatus, useStorage, useAdvancedEffect   *)
(* and usePrevious follow, each with its own variables, its own            *)
(* specification and its claims.                                           *)
(*                                                                         *)
(* The hook keeps three cells: the React state `state`, the timeline       *)
(* historyRef.current and the index pointerRef.current.  The refs are      *)
(* mutated synchronously by set/back/forward/go; `state` is only replaced  *)
(* on the next render, from the value last handed to setState.  Indices    *)
(* are 0-based as in the source; At(h, i) reads h[i].                      *)
(***************************************************************************)
EXTENDS Integers, Sequences, FiniteSets, TLC

\* ---------------------------------------------------------------- bounds
MaxValue == 2          \* stored values are 0..MaxValue
MaxCapacity == 3       \* capacities explored are 1..MaxCapacity
MaxFactoryCalls == 3   \* the factory call counter saturates here
MaxWrites == 15        \* writes explored with the default capacity
MaxDep == 3            \* dependency values are 0..MaxDep
NumDeps == 2           \* length of the dependency list of useUpdatedEffect

Values == 0..MaxValue
Indices == (0 - 1)..MaxCapacity
None == 0 - 1          \* no setState value is waiting for a render
Undefined == 0 - 2     \* JavaScript `undefined` (an array read out of range)
DepValues == 0..MaxDep
DepLists == [1..NumDeps -> DepValues]

\* variant: a smaller default
SmallDefaultCapacity == 10 - 5

\* line 9: { capacity } = { capacity: 10 }
DefaultCapacity == 10

VARIABLES
  historyRef,     \* historyRef.current : the timeline
  pointerRef,     \* pointerRef.current : 0-based index into the timeline
  state,          \* the useState value of the last render (what the caller sees)
  pending,        \* value handed to setState since the last render, or None
  capacity,       \* the capacity prop captured by the `set` closure
  pointer,        \* the `pointer` field returned by the last render
  factoryCalls,   \* number of times a defaultValue factory has been invoked
  call,           \* the last operation called, with the refs as they were before it
  initialCapacity,  \* the capacity passed on the first render
  \* useUpdatedEffect (src/src/hooks/default/useUpdatedEffect.ts)
  previousDepsRef,  \* previousDepsRef.current, <<>> while it is undefined
  deps,             \* the dependency list of the latest render
  lastDeps,         \* the dependency list of the render before it, <<>> if none
  effectRan,        \* whether effect() was called after the latest render
  \* one record per further hook, Idle while the hook is not the one explored
  interval,         \* useInterval    (src/src/hooks/async-management/useInterval.ts)
  timeout,          \* useTimeout     (src/src/hooks/async-management/useTimeout.ts)
  debounce,         \* useDebounce    (src/src/hooks/async-management/useDebounce.ts)
  geo,              \* useGeoLocation (src/src/hooks/location/useGeoLocation.ts)
  form,             \* useFormState   (src/src/hooks/state-management/useFormState.ts)
  array,            \* useArray       (src/src/hooks/state-management/useArray.ts)
  online,           \* useOnlineStatus (src/src/hooks/dom/useOnlineStatus.ts)
  storage,          \* useStorage     (src/unnamed/part_004)
  advanced,         \* useAdvancedEffect (src/src/hooks/default/useAdvancedEffect.ts)
  previous          \* usePrevious    (src/src/hooks/state-management/usePrevious.ts)

historyVars == <<historyRef, pointerRef, state, pending, capacity, pointer,
                 factoryCalls, call, initialCapacity>>

updatedEffectVars == <<previousDepsRef, deps, lastDeps, effectRan>>

hookVars == <<interval, timeout, debounce, geo, form, array, online, storage,
              advanced, previous>>

vars == <<historyRef, pointerRef, state, pending, capacity, pointer,
          factoryCalls, call, initialCapacity,
          previousDepsRef, deps, lastDeps, effectRan,
          interval, timeout, debounce, geo, form, array, online, storage,
          advanced, previous>>

\* a hook that is not mounted in the behaviours explored
Idle == [hook |-> "idle"]

\* every hook but `name` is idle
HooksIdle(name) ==
  /\ IF name = "interval" THEN TRUE ELSE interval = Idle
  /\ IF name = "timeout" THEN TRUE ELSE timeout = Idle
  /\ IF name = "debounce" THEN TRUE ELSE debounce = Idle
  /\ IF name = "geo" THEN TRUE ELSE geo = Idle
  /\ IF name = "form" THEN TRUE ELSE form = Idle
  /\ IF name = "array" THEN TRUE ELSE array = Idle
  /\ IF name = "online" THEN TRUE ELSE online = Idle
  /\ IF name = "storage" THEN TRUE ELSE storage = Idle
  /\ IF name = "advanced" THEN TRUE ELSE advanced = Idle
  /\ IF name = "previous" THEN TRUE ELSE previous = Idle

\* a step of hook `name` leaves every other hook alone
Frame(name) ==
  /\ UNCHANGED <<historyVars, updatedEffectVars>>
  /\ IF name = "interval" THEN TRUE ELSE UNCHANGED interval
  /\ IF name = "timeout" THEN TRUE ELSE UNCHANGED timeout
  /\ IF name = "debounce" THEN TRUE ELSE UNCHANGED debounce
  /\ IF name = "geo" THEN TRUE ELSE UNCHANGED geo
  /\ IF name = "form" THEN TRUE ELSE UNCHANGED form
  /\ IF name = "array" THEN TRUE ELSE UNCHANGED array
  /\ IF name = "online" THEN TRUE ELSE UNCHANGED online
  /\ IF name = "storage" THEN TRUE ELSE UNCHANGED storage
  /\ IF name = "advanced" THEN TRUE ELSE UNCHANGED advanced
  /\ IF name = "previous" THEN TRUE ELSE UNCHANGED previous

\* ------------------------------------------------------------- helpers
\* h[i] in JavaScript: undefined outside 0..length-1
At(h, i) == IF 0 <= i /\ i < Len(h) THEN h[i + 1] ELSE Undefined

Prefix(h, n) == SubSeq(h, 1, n)

\* the value `state` takes once the queued setState has been applied
CurrentValue == IF pending # None THEN pending ELSE state

\* line 15 / lines 34, 42, 48, 54: setState(v) queues v for the next render
SetState(v) == v

\* lines 21-22: a transform is applied to the `state` captured by the closure
Resolve(v) == IF v.fn THEN state + 1 ELSE v.val

\* variant: compares against the last entry instead of the entry at the pointer
DiffersFromLast(h, p, v) == At(h, Len(h) - 1) # v

\* line 23: historyRef.current[pointerRef.current] !== resolvedValue
DiffersFromEntry(h, p, v) == At(h, p) # v

\* variant: the redo branch is kept
NoSplice(h, p) == h

\* lines 24-26: splice(pointer + 1) when the pointer is not at the tail
Splice(h, p) == IF p < Len(h) - 1 THEN Prefix(h, p + 1) ELSE h

\* line 27: push
Push(h, v) == Append(h, v)

\* variant: the loop tolerates one entry too many
ShiftLate(h, cap) == IF Len(h) > cap + 1 THEN SubSeq(h, Len(h) - cap, Len(h)) ELSE h

\* variant: pop() instead of shift(), the newest entries are evicted
ShiftPop(h, cap) == IF Len(h) > cap THEN SubSeq(h, 1, cap) ELSE h

\* variant: an eviction drops two entries
ShiftTwo(h, cap) == IF Len(h) > cap THEN Tail(Tail(h)) ELSE h

\* lines 29-31: while (length > capacity) shift()
RECURSIVE Shift(_, _)
Shift(h, cap) == IF Len(h) > cap THEN Shift(Tail(h), cap) ELSE h

\* variant: the pointer is advanced by one instead of being set to the tail
NextPointer(h, p) == p + 1

\* line 32: pointerRef.current = historyRef.current.length - 1
TailPointer(h, p) == Len(h) - 1

\* variant: back refuses to return to index 0
BackReturnsEarly(p) == p <= 1

\* line 40: if (pointerRef.current <= 0) return
BackReturns(p) == p <= 0

\* line 41: pointerRef.current--
BackStep(p) == p - 1

\* variant: forward refuses to reach the last entry
ForwardReturnsEarly(h, p) == p >= Len(h) - 2

\* line 46: if (pointerRef.current >= historyRef.current.length - 1) return
ForwardReturns(h, p) == p >= Len(h) - 1

\* line 47: pointerRef.current++
ForwardStep(p) == p + 1

\* variant: the upper bound check admits index == length
GoReturnsLate(h, index) == index < 0 \/ index > Len(h)

\* variant: the lower bound check is missing
GoReturnsNoLower(h, index) == index >= Len(h) - 1

\* line 52: if (index < 0 || index >= historyRef.current.length - 1) return
GoReturns(h, index) == index < 0 \/ index >= Len(h) - 1

\* variant: set keeps the capacity it was constructed with
ConstructionCapacity == initialCapacity

\* line 36: `capacity` is a dependency of the set callback, so set reads the
\* capacity of the latest render
ClosureCapacity == capacity

\* lines 29-31: with a negative capacity the loop condition stays true on the
\* empty array (shift() on [] leaves length 0), so the loop never ends
ShiftDiverges(cap) == cap < 0

\* variant: each operation returns whether it changed the refs (1 true, 0 false)
ReturnsChanged(changed) == IF changed THEN 1 ELSE 0

\* lines 35, 40, 43, 46, 49, 52, 55: no operation returns a value
ReturnValue(changed) == Undefined

\* lines 19-37: no throw; the call returns unless the eviction loop diverges
SetOutcome(h, p, v, cap) ==
  IF DiffersFromEntry(h, p, v) /\ ShiftDiverges(cap)
  THEN "never returns" ELSE "returned"

\* lines 39-43: `return` at the boundary, no throw
BackOutcome(p) == "returned"

\* lines 45-49: `return` at the boundary, no throw
ForwardOutcome(h, p) == "returned"

\* variant: an index that is refused is reported by a throw
GoThrows(h, index) == IF GoReturns(h, index) THEN "raised" ELSE "returned"

\* lines 51-55: `return` on a refused index, no throw
GoOutcome(h, index) == "returned"

Called(name, arg, fn, changed, outcome) ==
  [name |-> name, arg |-> arg, fn |-> fn,
   preHistory |-> historyRef, prePointer |-> pointerRef,
   preCurrent |-> CurrentValue,
   capacity |-> capacity,
   ret |-> ReturnValue(changed),
   outcome |-> outcome]

\* JavaScript is single threaded: a call that never returns blocks the rest
Running == call.outcome # "never returns"

\* --------------------------------------------------- useUpdatedEffect
\* line 30: previousDepsRef.current = deps, before the comparison
AssignPrevious(prev, d) == d

\* lines 33-35: deps.some((dep, i) => dep !== previousDepsRef.current?.[i])
IsDepsChanged(d, prev) == \E i \in 0..(Len(d) - 1) : At(d, i) # At(prev, i)

\* useUpdatedEffect is not mounted
UpdatedEffectIdle ==
  /\ previousDepsRef = <<>>
  /\ deps = <<>>
  /\ lastDeps = <<>>
  /\ effectRan = FALSE

\* ---------------------------------------------------------------- Init
\* lines 7-17: first render.  A factory is called once for
\* resolvedDefaultValue (line 13) and once more by useState as its lazy
\* initializer (line 15); two calls of a factory may give different results
\* (fresh objects, impure functions).
Construct(cap, isFactory, r1, r2) ==
  /\ capacity = cap
  /\ initialCapacity = cap
  /\ historyRef = <<r1>>
  /\ pointerRef = 0
  /\ state = IF isFactory THEN r2 ELSE r1
  /\ pending = None
  /\ pointer = 0
  /\ factoryCalls = IF isFactory THEN 2 ELSE 0
  /\ call = [name |-> "init", arg |-> r1, fn |-> isFactory,
             preHistory |-> <<r1>>, prePointer |-> 0,
             preCurrent |-> IF isFactory THEN r2 ELSE r1,
             capacity |-> cap, ret |-> Undefined, outcome |-> "returned"]

Init ==
  /\ \E cap \in 1..MaxCapacity, isFactory \in BOOLEAN, r1 \in Values, r2 \in Values :
       Construct(cap, isFactory, r1, r2)
  /\ UpdatedEffectIdle
  /\ HooksIdle("")

\* construction from a plain value
InitPlain ==
  /\ \E cap \in 1..MaxCapacity, r1 \in Values : Construct(cap, FALSE, r1, r1)
  /\ UpdatedEffectIdle
  /\ HooksIdle("")

\* construction with any capacity the caller may pass; nothing validates it
InitAnyCapacity ==
  /\ \E cap \in (0 - 1)..MaxCapacity, r1 \in Values : Construct(cap, FALSE, r1, r1)
  /\ UpdatedEffectIdle
  /\ HooksIdle("")

\* construction without options, from the value 0
InitDefault ==
  /\ Construct(DefaultCapacity, FALSE, 0, 0)
  /\ UpdatedEffectIdle
  /\ HooksIdle("")

\* ------------------------------------------------------------- actions
\* lines 19-37
setCall(v) ==
  /\ Running
  /\ LET resolvedValue == Resolve(v)
         differs == DiffersFromEntry(historyRef, pointerRef, resolvedValue)
         outcome == SetOutcome(historyRef, pointerRef, resolvedValue, ClosureCapacity)
     IN /\ IF outcome = "never returns"
           THEN /\ historyRef' = <<>>
                /\ UNCHANGED <<pointerRef, pending>>
           ELSE /\ IF differs
                   THEN LET pushed == Shift(Push(Splice(historyRef, pointerRef),
                                                 resolvedValue), ClosureCapacity)
                        IN /\ historyRef' = pushed
                           /\ pointerRef' = TailPointer(pushed, pointerRef)
                   ELSE UNCHANGED <<historyRef, pointerRef>>
                /\ pending' = SetState(resolvedValue)
        /\ call' = Called("set", resolvedValue, v.fn, differs, outcome)
  /\ UNCHANGED <<state, capacity, pointer, factoryCalls, initialCapacity>>
  /\ UNCHANGED <<updatedEffectVars, hookVars>>

set ==
  \E v \in [fn : BOOLEAN, val : Values] :
    /\ v.fn => (v.val = 0 /\ state \in Values /\ state < MaxValue)
    /\ setCall(v)

\* a write of the value after the current entry: consecutive writes are
\* pairwise different
setNext ==
  \E v \in 1..MaxWrites :
    /\ v = At(historyRef, pointerRef) + 1
    /\ setCall([fn |-> FALSE, val |-> v])

\* variant: back drops the entry it leaves
backPop ==
  /\ Running
  /\ IF BackReturns(pointerRef)
     THEN UNCHANGED <<historyRef, pointerRef, pending>>
     ELSE /\ historyRef' = Prefix(historyRef, pointerRef)
          /\ pointerRef' = BackStep(pointerRef)
          /\ pending' = SetState(At(historyRef, BackStep(pointerRef)))
  /\ call' = Called("back", 0, FALSE, ~BackReturns(pointerRef),
                    BackOutcome(pointerRef))
  /\ UNCHANGED <<state, capacity, pointer, factoryCalls, initialCapacity>>
  /\ UNCHANGED <<updatedEffectVars, hookVars>>

\* lines 39-43
back ==
  /\ Running
  /\ IF BackReturns(pointerRef)
     THEN UNCHANGED <<pointerRef, pending>>
     ELSE /\ pointerRef' = BackStep(pointerRef)
          /\ pending' = SetState(At(historyRef, BackStep(pointerRef)))
  /\ call' = Called("back", 0, FALSE, ~BackReturns(pointerRef),
                    BackOutcome(pointerRef))
  /\ UNCHANGED <<historyRef, state, capacity, pointer, factoryCalls, initialCapacity>>
  /\ UNCHANGED <<updatedEffectVars, hookVars>>

\* lines 45-49
forward ==
  /\ Running
  /\ IF ForwardReturns(historyRef, pointerRef)
     THEN UNCHANGED <<pointerRef, pending>>
     ELSE /\ pointerRef' = ForwardStep(pointerRef)
          /\ pending' = SetState(At(historyRef, ForwardStep(pointerRef)))
  /\ call' = Called("forward", 0, FALSE, ~ForwardReturns(historyRef, pointerRef),
                    ForwardOutcome(historyRef, pointerRef))
  /\ UNCHANGED <<historyRef, state, capacity, pointer, factoryCalls, initialCapacity>>
  /\ UNCHANGED <<updatedEffectVars, hookVars>>

\* lines 51-55
go ==
  \E index \in Indices :
    /\ Running
    /\ IF GoReturns(historyRef, index)
       THEN UNCHANGED <<pointerRef, pending>>
       ELSE /\ pointerRef' = index
            /\ pending' = SetState(At(historyRef, index))
    /\ call' = Called("go", index, FALSE, ~GoReturns(historyRef, index),
                      GoOutcome(historyRef, index))
    /\ UNCHANGED <<historyRef, state, capacity, pointer, factoryCalls, initialCapacity>>
    /\ UNCHANGED <<updatedEffectVars, hookVars>>

\* lines 7-17 and 57-67 on a later render with the capacity option cap: the
\* queued setState value becomes `state`, the factory (if any) is called
\* again for resolvedDefaultValue, useRef keeps the refs, the set callback is
\* rebuilt with cap, and pointerRef.current is copied into the result.
RenderWith(cap) ==
  /\ Running
  /\ state' = CurrentValue
  /\ pending' = None
  /\ pointer' = pointerRef
  /\ capacity' = cap
  /\ factoryCalls' = IF factoryCalls > 0 /\ factoryCalls < MaxFactoryCalls
                     THEN factoryCalls + 1 ELSE factoryCalls
  /\ UNCHANGED <<historyRef, pointerRef, call, initialCapacity>>
  /\ UNCHANGED <<updatedEffectVars, hookVars>>

\* a render on which the owner passes the same capacity
Render == RenderWith(capacity)

\* a render on which the owner may pass another capacity
Rerender == \E cap \in 1..MaxCapacity : RenderWith(cap)

Next == set \/ back \/ forward \/ go \/ Render

Spec == Init /\ [][Next]_vars

SpecPlain == InitPlain /\ [][Next]_vars

SpecAnyCapacity == InitAnyCapacity /\ [][Next]_vars

\* writes and undo between renders that may pass another capacity
NextRerender == set \/ back \/ Rerender

SpecRerender == InitPlain /\ [][NextRerender]_vars

NextDefault == setNext \/ Render

SpecDefault == InitDefault /\ [][NextDefault]_vars

\* --------------------------------------------------- useUpdatedEffect
\* useUpdatedEffect.ts lines 23-44: a render with the dependency list d,
\* followed by the useEffect callback.  The callback runs after every render:
\* `deps` is a new array on each render, so the [effect, deps] list differs.
InitUpdatedEffect ==
  /\ Construct(1, FALSE, 0, 0)
  /\ HooksIdle("")
  /\ \E d \in DepLists :
       LET assigned == AssignPrevious(<<>>, d)
       IN /\ previousDepsRef = assigned
          /\ deps = d
          /\ lastDeps = <<>>
          /\ effectRan = IsDepsChanged(d, assigned)

useUpdatedEffect ==
  \E d \in DepLists :
    LET assigned == AssignPrevious(previousDepsRef, d)
    IN /\ previousDepsRef' = assigned
       /\ effectRan' = IsDepsChanged(d, assigned)
       /\ lastDeps' = deps
       /\ deps' = d
       /\ UNCHANGED <<historyVars, hookVars>>

SpecUpdatedEffect == InitUpdatedEffect /\ [][useUpdatedEffect]_vars

\* ---------------------------------------------------------------- claims
WasSet == call.name = "set"
Differed == call.arg # At(call.preHistory, call.prePointer)
PreLen == Len(call.preHistory)

\* C1: with a capacity >= 1 that never changes, the timeline always holds at
\* least one entry and at most `capacity` entries.
C1_LengthWithinCapacity ==
  1 <= Len(historyRef) /\ Len(historyRef) <= capacity

\* a set on a full timeline of the largest capacity, which had to evict
C1_Witness ==
  /\ WasSet /\ Differed
  /\ capacity = MaxCapacity
  /\ PreLen = capacity /\ call.prePointer = capacity - 1
  /\ Len(historyRef) = capacity

\* C2: the pointer always indexes an entry of the timeline:
\* 0 <= pointer <= length - 1, whatever index go is given.
C2_PointerInRange ==
  0 <= pointerRef /\ pointerRef <= Len(historyRef) - 1

\* go was called with an index past the end of a timeline of several entries
C2_Witness ==
  /\ call.name = "go" /\ call.arg >= PreLen /\ PreLen >= 2
  /\ pointerRef = call.prePointer

\* C3: once every state update has been applied, the value shown to the
\* caller is the timeline entry at the pointer, also right after a
\* construction from a factory.
C3_StateIsEntryAtPointer ==
  pending = None => state = At(historyRef, pointerRef)

\* C4: go(index) with 0 <= index < length (the last entry included) moves the
\* pointer to index, and the value handed to the state is timeline[index].
C4_GoReachesEveryEntry ==
  (call.name = "go" /\ 0 <= call.arg /\ call.arg < PreLen)
    => /\ pointerRef = call.arg
       /\ pointerRef # call.prePointer
            => CurrentValue = At(call.preHistory, call.arg)

\* C5: a set of a value that differs from the entry at the pointer, made
\* with the pointer before the tail, leaves old[0..pointer] followed by the
\* new value, with the pointer on the new value.
C5_RedoBranchDiscarded ==
  (WasSet /\ Differed /\ call.prePointer < PreLen - 1)
    => /\ historyRef = Append(Prefix(call.preHistory, call.prePointer + 1), call.arg)
       /\ pointerRef = call.prePointer + 1

\* a set at index 0 of a three-entry timeline: two entries were discarded
C5_Witness ==
  /\ WasSet /\ Differed
  /\ call.prePointer = 0 /\ PreLen = 3
  /\ Len(historyRef) = 2

\* C6: a set of a new value on a full timeline with the pointer at the tail
\* evicts the oldest entry and keeps the order of the others.
C6_OldestEvicted ==
  (WasSet /\ Differed /\ PreLen = capacity /\ call.prePointer = PreLen - 1)
    => historyRef = Append(Tail(call.preHistory), call.arg)

\* capacity 3, initial 0, writes 1, 2 and then 0 give [1, 2, 0]
C6_Witness ==
  /\ WasSet /\ capacity = 3
  /\ call.preHistory = <<0, 1, 2>> /\ call.prePointer = 2 /\ call.arg = 0
  /\ historyRef = <<1, 2, 0>> /\ pointerRef = 2

\* C7: after a set whose value differs from the entry at the pointer, the
\* pointer is at the tail and the tail is the value just written.
C7_PointerAtWrittenTail ==
  (WasSet /\ Differed)
    => /\ pointerRef = Len(historyRef) - 1
       /\ At(historyRef, pointerRef) = call.arg

\* a transform written on a full timeline of two or more entries
C7_Witness ==
  /\ WasSet /\ Differed /\ call.fn
  /\ PreLen = capacity /\ capacity >= 2 /\ call.prePointer = PreLen - 1
  /\ pointerRef = capacity - 1

\* C8: a set of a value equal to the entry at the pointer changes neither
\* the timeline nor the pointer; the redo branch stays.
C8_EqualWriteIsNoOp ==
  (WasSet /\ ~Differed)
    => /\ historyRef = call.preHistory
       /\ pointerRef = call.prePointer

\* an equal write made while a redo branch exists
C8_Witness ==
  /\ WasSet /\ ~Differed
  /\ call.prePointer < PreLen - 1
  /\ Len(historyRef) = PreLen

\* C9: back moves the pointer down by exactly one and the current value to
\* that entry when pointer > 0, and changes nothing when pointer = 0.
C9_BackStepsOrStays ==
  call.name = "back"
    => /\ historyRef = call.preHistory
       /\ IF call.prePointer > 0
          THEN /\ pointerRef = call.prePointer - 1
               /\ CurrentValue = At(call.preHistory, call.prePointer - 1)
          ELSE /\ pointerRef = call.prePointer
               /\ CurrentValue = call.preCurrent

\* back moved from index 1 to index 0 and the render has shown the entry
C9_Witness ==
  /\ call.name = "back" /\ call.prePointer = 1
  /\ pointerRef = 0 /\ pending = None
  /\ state = At(historyRef, 0) /\ state # At(historyRef, 1)

\* C10: forward moves the pointer up by exactly one and the current value to
\* that entry when the pointer is before the tail, and changes nothing when
\* the pointer is at the tail.
C10_ForwardStepsOrStays ==
  call.name = "forward"
    => /\ historyRef = call.preHistory
       /\ IF call.prePointer < PreLen - 1
          THEN /\ pointerRef = call.prePointer + 1
               /\ CurrentValue = At(call.preHistory, call.prePointer + 1)
          ELSE /\ pointerRef = call.prePointer
               /\ CurrentValue = call.preCurrent

\* forward moved onto the last entry and the render has shown it
C10_Witness ==
  /\ call.name = "forward" /\ call.prePointer = PreLen - 2
  /\ pointerRef = PreLen - 1 /\ pending = None
  /\ state = At(historyRef, pointerRef) /\ state # At(historyRef, call.prePointer)

\* C11: go with an index below 0 or at or past the length leaves the
\* timeline, the pointer and the current value as they were.
C11_InvalidGoIsNoOp ==
  (call.name = "go" /\ (call.arg < 0 \/ call.arg >= PreLen))
    => /\ historyRef = call.preHistory
       /\ pointerRef = call.prePointer
       /\ CurrentValue = call.preCurrent

\* go(-1) called with the pointer past index 0
C11_Witness ==
  /\ call.name = "go" /\ call.arg < 0
  /\ call.prePointer >= 1 /\ pointerRef = call.prePointer

\* C12: a set with the transform x => x + 1 writes the entry at the pointer,
\* as it is when set is called, plus one; also right after another call made
\* before any render.
C12_TransformSeesLatestEntry ==
  (WasSet /\ call.fn)
    => call.arg = At(call.preHistory, call.prePointer) + 1

C14_FactoryInvokedOnce ==
  factoryCalls # 0 => factoryCalls = 1

\* C15: no store with an empty timeline or a negative pointer exists, since a
\* capacity below 1 is refused at construction.
C15_NoEmptyTimeline ==
  Len(historyRef) >= 1 /\ pointerRef >= 0

C17_OnlySetChangesTimeline ==
  [][historyRef' # historyRef => call'.name = "set"]_vars

\* go moved the pointer inside a three-entry timeline that stayed as it was
C17_Witness ==
  /\ call.name = "go" /\ pointerRef = call.arg
  /\ pointerRef # call.prePointer
  /\ PreLen = 3 /\ historyRef = call.preHistory

\* C18: constructed without options from 0 and written 1, 2, 3, ... the
\* timeline never holds more than 10 entries; its last entry m is the number
\* of writes, and from 10 writes on it is exactly the 10 latest values
\* m-9 .. m (before that, every value 0 .. m).
C18_DefaultCapacityTen ==
  LET m == At(historyRef, Len(historyRef) - 1)
  IN /\ Len(historyRef) <= 10
     /\ m >= 10 => historyRef = [i \in 1..10 |-> m - 10 + i]
     /\ m < 10 => historyRef = [i \in 1..(m + 1) |-> i - 1]

\* twelve writes: the timeline is 3 .. 12
C18_Witness ==
  /\ WasSet /\ call.arg = 12
  /\ Len(historyRef) = 10 /\ pointerRef = 9
  /\ At(historyRef, 0) = 3 /\ At(historyRef, 9) = 12

C20_EffectRunsOnChange ==
  (lastDeps # <<>> /\ IsDepsChanged(deps, lastDeps)) => effectRan

\* ------------------------------------------------------------ useInterval
\* src/src/hooks/async-management/useInterval.ts: the default export (lines
\* 10-35) and the named export (lines 62-85).  `interval` is the record
\*   variant     which of the two exports is mounted
\*   mounted     the component is mounted
\*   callback    identity of the callback prop of the latest render
\*   delay       the interval prop of the latest render
\*   intervalRef intervalRef.current, NoTimer for the falsy 0 / null
\*   timers      the browser's running intervals, each with its callback
\*   nextId      the id the next setInterval returns
\*   cleared     the caller has called clear()
\*   invokedAfterClear   the callback ran after the caller's clear()
MaxTimers == 6         \* setInterval / setTimeout calls explored
MaxCallback == 1       \* callback identities are 0..MaxCallback
MaxDelay == 2          \* interval and delay props are 1..MaxDelay

NoTimer == 0
Callbacks == 0..MaxCallback
Delays == 1..MaxDelay

\* window.setInterval(cb, delay): a new running timer, its id stored in the ref
SetInterval(r, cb) ==
  [r EXCEPT !.timers = @ \cup {[id |-> r.nextId, callback |-> cb]},
            !.intervalRef = r.nextId,
            !.nextId = @ + 1]

\* window.clearInterval(id)
ClearInterval(r, id) == [r EXCEPT !.timers = {t \in @ : t.id # id}]

\* lines 17-22 / 71-76: clear(); only the named export resets the ref
IntervalClear(r) ==
  IF r.intervalRef = NoTimer
  THEN r
  ELSE IF r.variant = "default"
       THEN ClearInterval(r, r.intervalRef)
       ELSE [ClearInterval(r, r.intervalRef) EXCEPT !.intervalRef = NoTimer]

\* lines 29-31 / 81: the effect's cleanup
IntervalCleanup(r) ==
  IF r.variant = "default" THEN ClearInterval(r, r.intervalRef)
  ELSE IntervalClear(r)

\* lines 24-32 / 78-82: the effect body
IntervalEffect(r) == SetInterval(r, r.callback)

InitInterval ==
  /\ Construct(1, FALSE, 0, 0)
  /\ UpdatedEffectIdle
  /\ HooksIdle("interval")
  /\ \E v \in {"default", "named"}, cb \in Callbacks, d \in Delays :
       interval = IntervalEffect(
                    [variant |-> v, mounted |-> TRUE, callback |-> cb,
                     delay |-> d, intervalRef |-> NoTimer, timers |-> {},
                     nextId |-> 1, cleared |-> FALSE,
                     invokedAfterClear |-> FALSE])

\* a re-render with the props (cb, d); the effect re-runs, after the cleanup
\* of the previous one, when [callback, interval] differs (lines 32 / 82)
intervalRender ==
  /\ interval.mounted
  /\ \E cb \in Callbacks, d \in Delays :
       LET props == [interval EXCEPT !.callback = cb, !.delay = d]
       IN IF cb = interval.callback /\ d = interval.delay
          THEN interval' = interval
          ELSE /\ interval.nextId <= MaxTimers
               /\ interval' = IntervalEffect(IntervalCleanup(props))
  /\ Frame("interval")

\* the caller calls the returned clear()
intervalClear ==
  /\ interval.mounted
  /\ interval' = [IntervalClear(interval) EXCEPT !.cleared = TRUE]
  /\ Frame("interval")

\* a running interval fires and invokes its callback
intervalTick ==
  /\ \E t \in interval.timers :
       interval' = [interval EXCEPT !.invokedAfterClear = @ \/ interval.cleared]
  /\ Frame("interval")

\* the component unmounts: the cleanup of the last effect runs
intervalUnmount ==
  /\ interval.mounted
  /\ interval' = [IntervalCleanup(interval) EXCEPT !.mounted = FALSE]
  /\ Frame("interval")

NextInterval == intervalRender \/ intervalClear \/ intervalTick \/ intervalUnmount

SpecInterval == InitInterval /\ [][NextInterval]_vars

\* C21: once the caller has called clear(), the callback is never invoked
\* again, also when the component re-renders afterwards with a new callback
\* identity or interval.
C21_NoInvocationAfterClear == ~interval.invokedAfterClear

\* ------------------------------------------------------------- useTimeout
\* src/src/hooks/async-management/useTimeout.ts lines 10-60.  `timeout` is
\* the record
\*   mounted      the component is mounted
\*   callback     identity of the callback prop of the latest render
\*   callbackRef  callbackRef.current
\*   delay        the delay prop captured by the latest `set`
\*   timeoutRef   timeoutRef.current, NoTimer for undefined
\*   timers       the browser's pending timeouts, each with the time it is due
\*   nextId       the id the next setTimeout returns
\*   now          the clock
\*   disarmed     clear() or the unmount happened and no set()/reset() since
\*   invokedWhileDisarmed   the callback ran while `disarmed`
MaxTime == 4           \* the clock runs from 0 to MaxTime

\* lines 20-24: set(); the pending timeout, if any, is left running
TimeoutSet(r) ==
  [r EXCEPT !.timers = @ \cup {[id |-> r.nextId, due |-> r.now + r.delay]},
            !.timeoutRef = r.nextId,
            !.nextId = @ + 1]

\* lines 29-34: clear()
TimeoutClear(r) ==
  IF r.timeoutRef = NoTimer
  THEN r
  ELSE [r EXCEPT !.timers = {t \in @ : t.id # r.timeoutRef},
                 !.timeoutRef = NoTimer]

\* lines 39-42: reset()
TimeoutReset(r) == TimeoutSet(TimeoutClear(r))

\* lines 47-57, the effects of a render with the props (cb, d): a new delay
\* gives a new `set`, so the first effect's cleanup (clear) and body (set)
\* run; a new callback is stored in callbackRef
TimeoutEffects(r, cb, d) ==
  LET props == [r EXCEPT !.callback = cb, !.delay = d]
      armed == IF d = r.delay THEN props ELSE TimeoutSet(TimeoutClear(props))
  IN [armed EXCEPT !.callbackRef = cb]

\* a timeout is due
Due(r) == {t \in r.timers : t.due <= r.now}

\* a render that calls setTimeout needs a free timer id
CanArm(r) == r.nextId <= MaxTimers

InitTimeout ==
  /\ Construct(1, FALSE, 0, 0)
  /\ UpdatedEffectIdle
  /\ HooksIdle("timeout")
  /\ \E cb \in Callbacks, d \in Delays :
       timeout = TimeoutSet(
                   [mounted |-> TRUE, callback |-> cb, callbackRef |-> cb,
                    delay |-> d, timeoutRef |-> NoTimer, timers |-> {},
                    nextId |-> 1, now |-> 0, disarmed |-> FALSE,
                    invokedWhileDisarmed |-> FALSE])

\* a re-render with the props (cb, d)
timeoutRender ==
  /\ timeout.mounted
  /\ \E cb \in Callbacks, d \in Delays :
       /\ d # timeout.delay => CanArm(timeout)
       /\ timeout' = TimeoutEffects(timeout, cb, d)
  /\ Frame("timeout")

\* the caller calls the returned set()
timeoutSet ==
  /\ timeout.mounted
  /\ CanArm(timeout)
  /\ timeout' = [TimeoutSet(timeout) EXCEPT !.disarmed = FALSE]
  /\ Frame("timeout")

\* the caller calls the returned clear()
timeoutClear ==
  /\ timeout.mounted
  /\ timeout' = [TimeoutClear(timeout) EXCEPT !.disarmed = TRUE]
  /\ Frame("timeout")

\* the caller calls the returned reset()
timeoutReset ==
  /\ timeout.mounted
  /\ CanArm(timeout)
  /\ timeout' = [TimeoutReset(timeout) EXCEPT !.disarmed = FALSE]
  /\ Frame("timeout")

\* lines 21-23: a due timeout fires and invokes callbackRef.current
timeoutFire ==
  /\ \E t \in Due(timeout) :
       timeout' = [timeout EXCEPT
                     !.timers = @ \ {t},
                     !.invokedWhileDisarmed = @ \/ timeout.disarmed]
  /\ Frame("timeout")

\* time passes while no timeout is due
timeoutTick ==
  /\ Due(timeout) = {}
  /\ timeout.now < MaxTime
  /\ timeout' = [timeout EXCEPT !.now = @ + 1]
  /\ Frame("timeout")

\* line 49: the component unmounts, the effect's cleanup is clear
timeoutUnmount ==
  /\ timeout.mounted
  /\ timeout' = [TimeoutClear(timeout) EXCEPT !.mounted = FALSE,
                                              !.disarmed = TRUE]
  /\ Frame("timeout")

NextTimeout ==
  \/ timeoutRender \/ timeoutSet \/ timeoutClear \/ timeoutReset
  \/ timeoutFire \/ timeoutTick \/ timeoutUnmount

SpecTimeout == InitTimeout /\ [][NextTimeout]_vars

\* C22: after clear() or after the unmount the callback is not invoked unless
\* set() or reset() is called afterwards, whatever sequence of set, clear and
\* reset came before (set() while the timeout armed on mount is pending too).
C22_NoInvocationWhileDisarmed == ~timeout.invokedWhileDisarmed

\* ------------------------------------------------------------ useDebounce
\* src/src/hooks/async-management/useDebounce.ts lines 31-40 (and the default
\* export, lines 79-87, whose body is the same), on top of useTimeout.
\* `debounce` holds the fields of useTimeout that the hook uses and
\*   deps         the dependency of the latest render
\*   changedAt    the time of the latest change of deps, None before the first
\*   invocations  callback invocations since the latest change of deps
\*   invokedAt    the time of the latest invocation, None if there was none
\*   delayChanged the delay prop changed after the latest change of deps
\*   invokedUnmounted   the callback ran after the unmount

\* the four effects of a render with the props (cb, d, dep), in hook order:
\* useTimeout's effects (lines 47-57), then useEffect(reset, [...deps, reset])
\* (line 38), whose `reset` is rebuilt with `set` when the delay changes;
\* useEffect(clear, [clear]) (line 39) never re-runs, `clear` being stable
DebounceEffects(r, cb, d, dep) ==
  LET timed == TimeoutEffects(r, cb, d)
      reset == IF d # r.delay \/ dep # r.deps THEN TimeoutReset(timed) ELSE timed
  IN [reset EXCEPT !.deps = dep,
                   !.changedAt = IF dep # r.deps THEN r.now ELSE @,
                   !.invocations = IF dep # r.deps THEN 0 ELSE @,
                   !.delayChanged = IF dep # r.deps THEN FALSE
                                    ELSE @ \/ d # r.delay]

\* the first render: set() by useTimeout's effect, reset() by line 38, then
\* clear() run as the body of the effect of line 39
DebounceMount(r) == TimeoutClear(TimeoutReset(TimeoutSet(r)))

\* setTimeout calls made by the effects of a render with the props (d, dep)
Arms(r, d, dep) ==
  (IF d # r.delay THEN 2 ELSE IF dep # r.deps THEN 1 ELSE 0)

InitDebounce ==
  /\ Construct(1, FALSE, 0, 0)
  /\ UpdatedEffectIdle
  /\ HooksIdle("debounce")
  /\ \E cb \in Callbacks, d \in Delays, dep \in DepValues :
       debounce = DebounceMount(
                    [mounted |-> TRUE, callback |-> cb, callbackRef |-> cb,
                     delay |-> d, timeoutRef |-> NoTimer, timers |-> {},
                     nextId |-> 1, now |-> 0, deps |-> dep,
                     changedAt |-> None, invocations |-> 0,
                     invokedAt |-> None, delayChanged |-> FALSE,
                     invokedUnmounted |-> FALSE])

\* a re-render with the props (cb, d, dep)
debounceRender ==
  /\ debounce.mounted
  /\ \E cb \in Callbacks, d \in Delays, dep \in DepValues :
       /\ debounce.nextId + Arms(debounce, d, dep) <= MaxTimers + 1
       /\ debounce' = DebounceEffects(debounce, cb, d, dep)
  /\ Frame("debounce")

\* useTimeout.ts lines 21-23: a due timeout fires and invokes the callback
debounceFire ==
  /\ \E t \in Due(debounce) :
       debounce' = [debounce EXCEPT
                      !.timers = @ \ {t},
                      !.invocations = @ + 1,
                      !.invokedAt = debounce.now,
                      !.invokedUnmounted = @ \/ ~debounce.mounted]
  /\ Frame("debounce")

\* time passes while no timeout is due
debounceTick ==
  /\ Due(debounce) = {}
  /\ debounce.now < MaxTime
  /\ debounce' = [debounce EXCEPT !.now = @ + 1]
  /\ Frame("debounce")

\* the component unmounts: the cleanup of useTimeout's effect is clear
debounceUnmount ==
  /\ debounce.mounted
  /\ debounce' = [TimeoutClear(debounce) EXCEPT !.mounted = FALSE]
  /\ Frame("debounce")

NextDebounce == debounceRender \/ debounceFire \/ debounceTick \/ debounceUnmount

SpecDebounce == InitDebounce /\ [][NextDebounce]_vars

\* C23: the callback runs only after a change of the dependency list, once per
\* change and exactly `delay` after the latest change; while that invocation
\* is outstanding exactly one timeout is pending, due `delay` after the
\* change; the callback never runs after the unmount.  The two statements
\* about the time are asked only while the delay prop is the one of the change.
C23_InvokedOncePerChange ==
  /\ debounce.invocations <= (IF debounce.changedAt = None THEN 0 ELSE 1)
  /\ (debounce.invocations = 1 /\ ~debounce.delayChanged) =>
       debounce.invokedAt = debounce.changedAt + debounce.delay
  /\ (/\ debounce.mounted
      /\ debounce.changedAt # None
      /\ debounce.invocations = 0
      /\ ~debounce.delayChanged) =>
       \E t \in debounce.timers :
         /\ debounce.timers = {t}
         /\ t.due = debounce.changedAt + debounce.delay
  /\ ~debounce.invokedUnmounted

\* --------------------------------------------------------- useGeoLocation
\* src/src/hooks/location/useGeoLocation.ts lines 42-111.  `geo` is the record
\*   mounted      the component is mounted
\*   supported    navigator.geolocation exists
\*   retryLimit   options.retryLimit, the same in every options object passed
\*   epoch        number of the latest run of the effect (one per `options`)
\*   loading, error, coords   the three useState cells (error and coords as
\*                "is not null")
\*   retriesRef   retriesRef.current
\*   watchIdRef   watchIdRef.current, NoTimer for null
\*   watches      the active position watches, each with the effect run that
\*                started it
\*   timers       the pending retry timeouts, each with the effect run whose
\*                fetchLocation it will call
\*   nextWatch, nextId   the ids the next watchPosition / setTimeout return
\*   last         the callback that ran last
\*   sinceSuccess retries scheduled since the latest success
\*   staleFetch   a retry scheduled by an earlier effect run, or before the
\*                unmount, ran fetchLocation
MaxRetryLimit == 2     \* explicit retry limits are 0..MaxRetryLimit
MaxWatches == 3        \* watchPosition calls and retry timeouts explored
MaxEpoch == 2          \* runs of the effect explored

\* line 66: retryLimit = 3
DefaultRetryLimit == 3

RetryLimits == (0..MaxRetryLimit) \cup {DefaultRetryLimit}

\* variant: the limit itself still allows a retry
RetryAllowedInclusive(r) == r.retriesRef <= r.retryLimit

\* line 82: retriesRef.current < retryLimit
RetryAllowed(r) == r.retriesRef < r.retryLimit

\* lines 69-99: fetchLocation() called by the effect run e
FetchLocation(r, e) ==
  [r EXCEPT !.loading = TRUE,
            !.watches = @ \cup {[id |-> r.nextWatch, epoch |-> e]},
            !.watchIdRef = r.nextWatch,
            !.nextWatch = @ + 1]

\* lines 72-77: successCallback
SuccessCallback(r) ==
  [r EXCEPT !.coords = TRUE, !.error = FALSE, !.loading = FALSE,
            !.retriesRef = 0, !.sinceSuccess = 0, !.last = "success"]

\* lines 79-88: errorCallback of a watch started by the effect run e
ErrorCallback(r, e) ==
  IF RetryAllowed(r)
  THEN [r EXCEPT !.error = TRUE,
                 !.retriesRef = @ + 1,
                 !.timers = @ \cup {[id |-> r.nextId, epoch |-> e]},
                 !.nextId = @ + 1,
                 !.sinceSuccess = @ + 1,
                 !.last = "error"]
  ELSE [r EXCEPT !.error = TRUE, !.loading = FALSE, !.last = "error"]

\* lines 103-107: the effect's cleanup
GeoCleanup(r) ==
  IF r.watchIdRef = NoTimer
  THEN r
  ELSE [r EXCEPT !.watches = {w \in @ : w.id # r.watchIdRef}]

\* lines 51-101: the effect body, run number e
GeoEffect(r, e) ==
  IF r.supported
  THEN FetchLocation([r EXCEPT !.epoch = e], e)
  ELSE [r EXCEPT !.epoch = e, !.error = TRUE, !.loading = FALSE]

InitGeo ==
  /\ Construct(1, FALSE, 0, 0)
  /\ UpdatedEffectIdle
  /\ HooksIdle("geo")
  /\ \E sup \in BOOLEAN, limit \in RetryLimits :
       geo = GeoEffect(
               [mounted |-> TRUE, supported |-> sup, retryLimit |-> limit,
                epoch |-> 0, loading |-> TRUE, error |-> FALSE,
                coords |-> FALSE, retriesRef |-> 0, watchIdRef |-> NoTimer,
                watches |-> {}, timers |-> {}, nextWatch |-> 1, nextId |-> 1,
                last |-> "mount", sinceSuccess |-> 0, staleFetch |-> FALSE],
               1)

\* an active watch reports a position
geoSuccess ==
  /\ \E w \in geo.watches : geo' = SuccessCallback(geo)
  /\ Frame("geo")

\* an active watch reports an error
geoError ==
  /\ \E w \in geo.watches :
       /\ RetryAllowed(geo) => geo.nextId <= MaxWatches
       /\ geo' = ErrorCallback(geo, w.epoch)
  /\ Frame("geo")

\* line 84: a retry timeout fires and calls fetchLocation
geoRetry ==
  /\ geo.nextWatch <= MaxWatches
  /\ \E t \in geo.timers :
       geo' = [FetchLocation([geo EXCEPT !.timers = @ \ {t}], t.epoch)
                 EXCEPT !.last = "retry",
                        !.staleFetch = @ \/ ~geo.mounted \/ t.epoch # geo.epoch]
  /\ Frame("geo")

\* a re-render with a new options object: cleanup, then the effect again
geoOptionsChange ==
  /\ geo.mounted
  /\ geo.epoch < MaxEpoch
  /\ geo.nextWatch <= MaxWatches
  /\ geo' = [GeoEffect(GeoCleanup(geo), geo.epoch + 1) EXCEPT !.last = "options"]
  /\ Frame("geo")

\* the component unmounts
geoUnmount ==
  /\ geo.mounted
  /\ geo' = [GeoCleanup(geo) EXCEPT !.mounted = FALSE, !.last = "unmount"]
  /\ Frame("geo")

NextGeo == geoSuccess \/ geoError \/ geoRetry \/ geoOptionsChange \/ geoUnmount

SpecGeo == InitGeo /\ [][NextGeo]_vars

\* C24: after the unmount no position watch started by the hook is active,
\* after a change of `options` none started by an earlier run of the effect is,
\* and no retry pending from before starts a watch or sets loading.
C24_NothingSurvivesCleanup ==
  /\ ~geo.mounted => geo.watches = {}
  /\ \A w \in geo.watches : w.epoch = geo.epoch
  /\ ~geo.staleFetch

MaxLength == 10        \* strings have 0..MaxLength characters

FormValues == 0..MaxLength
NoMessage == 0
TooShort == 1          \* "length must be more than 10 characters!"
Empty == 2             \* "can't be empty!"

\* part_000 line 14: str.length < 10
MinLength == 10

\* part_000 lines 13-15
validateLength(v) == IF v < MinLength THEN TooShort ELSE NoMessage

\* part_000 lines 17-19
cantBeEmpty(v) == IF v = 0 THEN Empty ELSE NoMessage

\* line 76: predicates.map((predicate) => predicate(value))
NewErrors(v) == <<validateLength(v), cantBeEmpty(v)>>

IsMessage(e) == e # NoMessage

\* lines 111-114: errors.filter((error) => !!error)
FilteredErrors(errors) == SelectSeq(errors, IsMessage)

\* line 115
IsValid(errors) == Len(FilteredErrors(errors)) = 0

\* lines 74-82: validate(value) of the latest render; `errors` is the cell as
\* that render saw it
Validate(r, v) ==
  IF NewErrors(v) # r.errors
  THEN [r EXCEPT !.nextErrors = NewErrors(v)]
  ELSE r

\* lines 91-105: the updater handed to setState, applied to prev
Updater(r, v) ==
  LET validated == Validate(r, v)
      emptied == IF v = 0 /\ ~r.emptyInputValidation
                 THEN [validated EXCEPT !.nextErrors = <<>>]
                 ELSE validated
  IN [emptied EXCEPT !.nextState = v, !.dirty = TRUE, !.touched = TRUE]

InitForm ==
  /\ Construct(1, FALSE, 0, 0)
  /\ UpdatedEffectIdle
  /\ HooksIdle("form")
  /\ \E d \in FormValues, e \in BOOLEAN :
       form = [emptyInputValidation |-> e,
               state |-> d, errors |-> <<NoMessage, NoMessage>>,
               nextState |-> d, nextErrors |-> <<NoMessage, NoMessage>>,
               dirty |-> FALSE, touched |-> FALSE]

\* lines 89-108: setValue(value), `value` being a string or the updater
\* function prev => prev + "x" (lines 92-95)
AppendChar(prev) == IF prev < MaxLength THEN prev + 1 ELSE prev

setValue ==
  /\ \E isFunction \in BOOLEAN, v \in FormValues :
       LET newValue == IF isFunction THEN AppendChar(form.nextState) ELSE v
       IN form' = Updater(form, newValue)
  /\ Frame("form")

\* the re-render the setters asked for
formRender ==
  /\ form.dirty
  /\ form' = [form EXCEPT !.state = form.nextState,
                          !.errors = form.nextErrors,
                          !.dirty = FALSE]
  /\ Frame("form")

NextForm == setValue \/ formRender

SpecForm == InitForm /\ [][NextForm]_vars

\* the messages the predicates return for v, none for the empty string when
\* emptyInputValidation is off
ExpectedErrors(r, v) ==
  IF v = 0 /\ ~r.emptyInputValidation THEN <<>>
  ELSE FilteredErrors(NewErrors(v))

\* C26: once setValue has been called and the component has re-rendered, the
\* returned errors are exactly the messages the predicates return for the
\* current value (none for the empty string when emptyInputValidation is
\* off), and isValid is TRUE exactly when there is no such message.
C26_ErrorsMatchValue ==
  (form.touched /\ ~form.dirty) =>
    /\ FilteredErrors(form.errors) = ExpectedErrors(form, form.state)
    /\ IsValid(form.errors) <=> (ExpectedErrors(form, form.state) = <<>>)

\* --------------------------------------------------------------- useArray
\* src/src/hooks/state-management/useArray.ts lines 11-156.  `array` is the
\* record
\*   initialValueRef   initialValueRef.current
\*   state       the useState cell as of the latest render
\*   nextState   the cell after the updaters queued since the latest render
\*   dirty       setState was called since the latest render
\*   call        the last operation: its name, its arguments, the array its
\*               updater was applied to (prev) and what it returned
MaxArrayLen == 2       \* arrays explored have 0..MaxArrayLen elements
MaxElem == 1           \* array elements are 0..MaxElem

Elems == 0..MaxElem
Arrays == UNION {[1..n -> Elems] : n \in 0..MaxArrayLen}
ArrayIndices == 0..MaxArrayLen

\* prev.slice(from, to), 0-based and half-open as in JavaScript
Slice(a, from, to) ==
  IF from >= to \/ from >= Len(a) THEN <<>>
  ELSE SubSeq(a, from + 1, IF to > Len(a) THEN Len(a) ELSE to)

\* position (1-based) of the first element equal to v, 0 if there is none
FirstIndex(a, v) ==
  IF \E i \in 1..Len(a) : a[i] = v
  THEN CHOOSE i \in 1..Len(a) : a[i] = v /\ \A j \in 1..(i - 1) : a[j] # v
  ELSE 0

\* variant: only the first element equal to v is removed
RemoveFirst(a, v) ==
  IF FirstIndex(a, v) = 0 THEN a
  ELSE Slice(a, 0, FirstIndex(a, v) - 1) \o Slice(a, FirstIndex(a, v), Len(a))

\* lines 70-76: prev.filter((item) => item !== value)
RemoveByValue(a, v) == LET Kept(x) == x # v IN SelectSeq(a, Kept)

\* variant: only the first element equal to p is replaced
UpdateFirst(a, p, n) ==
  [i \in 1..Len(a) |-> IF i = FirstIndex(a, p) THEN n ELSE a[i]]

\* lines 128-134: prev.map((item) => item === prevValue ? newValue : item)
UpdateByValue(a, p, n) == [i \in 1..Len(a) |-> IF a[i] = p THEN n ELSE a[i]]

\* state[i], `undefined` out of range
Element(a, i) == IF i >= 0 /\ i < Len(a) THEN a[i + 1] ELSE Undefined

\* setState(updater) by the operation `name`: `next` is the updater's result
Queue(name, arg, arg2, ret, next) ==
  array' = [array EXCEPT
              !.nextState = next,
              !.dirty = TRUE,
              !.call = [name |-> name, arg |-> arg, arg2 |-> arg2,
                        prev |-> array.nextState, ret |-> ret]]

InitArray ==
  /\ Construct(1, FALSE, 0, 0)
  /\ UpdatedEffectIdle
  /\ HooksIdle("array")
  /\ \E a \in Arrays :
       array = [initialValueRef |-> a, state |-> a, nextState |-> a,
                dirty |-> FALSE,
                call |-> [name |-> "init", arg |-> None, arg2 |-> None,
                          prev |-> a, ret |-> Undefined]]

\* lines 22-25
arrayPush ==
  /\ Len(array.nextState) < MaxArrayLen
  /\ \E v \in Elems :
       Queue("push", v, None, Len(array.state) + 1, Append(array.nextState, v))
  /\ Frame("array")

\* lines 31-35: the element returned is read from the rendered `state`
arrayPop ==
  /\ Queue("pop", None, None,
           Element(array.state, Len(array.state) - 1),
           Slice(array.nextState, 0, Len(array.nextState) - 1))
  /\ Frame("array")

\* lines 41-44
arrayUnshift ==
  /\ Len(array.nextState) < MaxArrayLen
  /\ \E v \in Elems :
       Queue("unshift", v, None, Len(array.state) + 1, <<v>> \o array.nextState)
  /\ Frame("array")

\* lines 50-54
arrayShift ==
  /\ Queue("shift", None, None, Element(array.state, 0),
           Slice(array.nextState, 1, Len(array.nextState)))
  /\ Frame("array")

\* lines 60-62
removeByIndex ==
  /\ \E i \in ArrayIndices :
       Queue("removeByIndex", i, None, Undefined,
             Slice(array.nextState, 0, i)
               \o Slice(array.nextState, i + 1, Len(array.nextState)))
  /\ Frame("array")

\* lines 68-78
removeByValue ==
  /\ \E v \in Elems :
       Queue("removeByValue", v, None, Undefined,
             RemoveByValue(array.nextState, v))
  /\ Frame("array")

\* lines 83-85, 91-93 and 98-100: clear(), replace(newArray) and reset() hand
\* an array, not an updater, to setState
arrayReplace ==
  /\ \E a \in Arrays : Queue("replace", None, None, Undefined, a)
  /\ Frame("array")

arrayClear ==
  /\ Queue("clear", None, None, Undefined, <<>>)
  /\ Frame("array")

arrayReset ==
  /\ Queue("reset", None, None, Undefined, array.initialValueRef)
  /\ Frame("array")

\* lines 117-119
updateByIndex ==
  /\ \E i \in ArrayIndices, v \in Elems :
       Queue("updateByIndex", i, v, Undefined,
             [k \in 1..Len(array.nextState) |->
                IF k = i + 1 THEN v ELSE array.nextState[k]])
  /\ Frame("array")

\* lines 126-136
updateByValue ==
  /\ \E p \in Elems, n \in Elems :
       Queue("updateByValue", p, n, Undefined,
             UpdateByValue(array.nextState, p, n))
  /\ Frame("array")

\* the re-render setState asked for
arrayRender ==
  /\ array.dirty
  /\ array' = [array EXCEPT !.state = array.nextState, !.dirty = FALSE]
  /\ Frame("array")

NextArray ==
  \/ arrayPush \/ arrayPop \/ arrayUnshift \/ arrayShift
  \/ removeByIndex \/ removeByValue
  \/ arrayReplace \/ arrayClear \/ arrayReset
  \/ updateByIndex \/ updateByValue
  \/ arrayRender

SpecArray == InitArray /\ [][NextArray]_vars

\* C27: every call of pop removes the last element and returns the element
\* that this call removed (undefined when the array was empty), also when pop
\* is called several times before a re-render.
C27_PopReturnsRemoved ==
  array.call.name = "pop" =>
    /\ array.nextState = Slice(array.call.prev, 0, Len(array.call.prev) - 1)
    /\ array.call.ret = Element(array.call.prev, Len(array.call.prev) - 1)

\* C28: removeByValue removes only the first element equal to the value, and
\* updateByValue replaces only the first element equal to prevValue.
C28_OnlyFirstOccurrence ==
  /\ array.call.name = "removeByValue" =>
       array.nextState = RemoveFirst(array.call.prev, array.call.arg)
  /\ array.call.name = "updateByValue" =>
       array.nextState = UpdateFirst(array.call.prev, array.call.arg,
                                     array.call.arg2)

\* -------------------------------------------------------- useOnlineStatus
\* src/src/hooks/dom/useOnlineStatus.ts: the default export (lines 3-13) and
\* the named export (lines 38-49) with useEventListener.ts lines 11-56.
\* `online` is the record
\*   variant       which of the two exports is mounted
\*   mounted       the component is mounted
\*   onLine        navigator.onLine
\*   onlineStatus  the useState cell as of the latest render
\*   nextStatus    the cell after the setOnlineStatus calls since that render
\*   dirty         setOnlineStatus was called since the latest render
\*   listeners     the event types for which the hook has a listener on window
\*   events        connectivity events so far
MaxEvents == 8         \* connectivity events explored

\* lines 5 / 40 / 44: navigator.onLine ? "online" : "offline"
Connectivity(onLine) == IF onLine THEN "online" ELSE "offline"

\* lines 43-45: updateStatus(); line 9 for the default export's effect
UpdateStatus(r) ==
  [r EXCEPT !.nextStatus = Connectivity(r.onLine), !.dirty = TRUE]

\* line 47 with useEventListener.ts line 45: the only listener is for "online";
\* the default export adds none
Listeners(variant) == IF variant = "named" THEN {"online"} ELSE {}

\* lines 4-10 / 39-47: the first render and its effects
OnlineMount(variant, onLine) ==
  LET r == [variant |-> variant, mounted |-> TRUE, onLine |-> onLine,
            onlineStatus |-> Connectivity(onLine),
            nextStatus |-> Connectivity(onLine), dirty |-> FALSE,
            listeners |-> Listeners(variant), events |-> 0]
  IN IF variant = "default" THEN UpdateStatus(r) ELSE r

InitOnline ==
  /\ Construct(1, FALSE, 0, 0)
  /\ UpdatedEffectIdle
  /\ HooksIdle("online")
  /\ \E v \in {"default", "named"}, onLine \in BOOLEAN :
       online = OnlineMount(v, onLine)

\* the browser changes connectivity and dispatches "online" or "offline" on
\* window; the hook's listeners for that event type run
connectivityEvent ==
  /\ online.events < MaxEvents
  /\ LET type == Connectivity(~online.onLine)
         changed == [online EXCEPT !.onLine = ~online.onLine,
                                   !.events = @ + 1]
     IN online' = IF type \in online.listeners
                  THEN UpdateStatus(changed)
                  ELSE changed
  /\ Frame("online")

\* a re-render; useEventListener's effect removes and adds the same listener
onlineRender ==
  /\ online.mounted
  /\ online' = [online EXCEPT !.onlineStatus = online.nextStatus,
                              !.dirty = FALSE]
  /\ Frame("online")

\* useEventListener.ts lines 48-54: the unmount removes the listener
onlineUnmount ==
  /\ online.mounted
  /\ online' = [online EXCEPT !.mounted = FALSE, !.listeners = {}]
  /\ Frame("online")

NextOnline == connectivityEvent \/ onlineRender \/ onlineUnmount

SpecOnline == InitOnline /\ [][NextOnline]_vars

\* C29: after every connectivity event, once the renders it asked for are
\* done, the returned onlineStatus equals the browser's connectivity.
C29_StatusIsConnectivity ==
  (online.mounted /\ ~online.dirty /\ online.events > 0) =>
    online.onlineStatus = Connectivity(online.onLine)

\* ------------------------------------------------------------- useStorage
\* src/unnamed/part_004 lines 3-23.  `storage` is the record
\*   mounted     the component is mounted (FALSE also when the first render
\*               threw)
\*   key         the key prop of the latest render
\*   value       the useState cell as of the latest render
\*   nextValue   the cell after the setValue calls since that render
\*   dirty       setValue was called since the latest render
\*   effectPending   the latest commit changed [value, key, storage] and the
\*               effect has not run yet
\*   entries     the Storage object: for every key its text, or Absent
\*   last        the Storage method the effect called last
\*   replaced    what the storage held under the key before that call
MaxStored == 1         \* stored numbers are 0..MaxStored
MaxKey == 2            \* keys are 1..MaxKey

Null == 0 - 3          \* JavaScript null
NaN == 0 - 4           \* JavaScript NaN
StorageValues == (0..MaxStored) \cup {Undefined, Null, NaN}
Keys == 1..MaxKey

Absent == "absent"     \* getItem returns null
InvalidJson == "{"     \* a text JSON.parse throws on

\* JSON.stringify(v) for a number or null
Stringify(v) == IF v = Null \/ v = NaN THEN "null" ELSE ToString(v)

\* JSON.parse(text) for the texts Stringify produces
Parse(text) ==
  IF text = "null" THEN Null
  ELSE CHOOSE v \in 0..(MaxStored + 1) : ToString(v) = text

StoredTexts == {Absent, InvalidJson} \cup {Stringify(v) : v \in 0..MaxStored} \cup {"null"}

\* variant: the value is written whatever it is; setItem turns undefined into text
StorageEffectAlwaysSets(r) ==
  [r EXCEPT !.entries[r.key] =
              IF r.value = Undefined THEN "undefined" ELSE Stringify(r.value),
            !.last = "setItem",
            !.replaced = r.entries[r.key],
            !.effectPending = FALSE]

\* lines 17-20: the effect
StorageEffect(r) ==
  IF r.value = Undefined
  THEN [r EXCEPT !.entries[r.key] = Absent,
                 !.last = "removeItem",
                 !.replaced = r.entries[r.key],
                 !.effectPending = FALSE]
  ELSE [r EXCEPT !.entries[r.key] = Stringify(r.value),
                 !.last = "setItem",
                 !.replaced = r.entries[r.key],
                 !.effectPending = FALSE]

\* lines 4-15: the lazy initial state; a stored text wins over defaultValue
InitialValue(text, defaultValue) ==
  IF text # Absent THEN Parse(text) ELSE defaultValue

InitStorage ==
  /\ Construct(1, FALSE, 0, 0)
  /\ UpdatedEffectIdle
  /\ HooksIdle("storage")
  /\ \E k \in Keys, d \in StorageValues, e \in [Keys -> StoredTexts] :
       storage =
         IF e[k] = InvalidJson
         THEN [mounted |-> FALSE, key |-> k, value |-> d, nextValue |-> d,
               dirty |-> FALSE, effectPending |-> FALSE, entries |-> e,
               last |-> "threw", replaced |-> Absent]
         ELSE [mounted |-> TRUE, key |-> k,
               value |-> InitialValue(e[k], d),
               nextValue |-> InitialValue(e[k], d),
               dirty |-> FALSE, effectPending |-> TRUE, entries |-> e,
               last |-> "none", replaced |-> Absent]

\* the caller calls the returned setValue(v)
storageSetValue ==
  /\ storage.mounted
  /\ \E v \in StorageValues :
       storage' = [storage EXCEPT !.nextValue = v, !.dirty = TRUE]
  /\ Frame("storage")

\* a re-render with the key prop k commits the pending value; the effect is
\* due when [value, key, storage] changed (line 20)
storageRender ==
  /\ storage.mounted
  /\ ~storage.effectPending
  /\ \E k \in Keys :
       storage' = [storage EXCEPT
                     !.key = k,
                     !.value = storage.nextValue,
                     !.dirty = FALSE,
                     !.effectPending = (k # storage.key
                                        \/ storage.nextValue # storage.value)]
  /\ Frame("storage")

\* lines 17-20: the effect runs after the commit
storageEffect ==
  /\ storage.mounted
  /\ storage.effectPending
  /\ storage' = StorageEffect(storage)
  /\ Frame("storage")

\* the component unmounts; the effect has no cleanup
storageUnmount ==
  /\ storage.mounted
  /\ ~storage.effectPending
  /\ storage' = [storage EXCEPT !.mounted = FALSE]
  /\ Frame("storage")

NextStorage == storageSetValue \/ storageRender \/ storageEffect \/ storageUnmount

SpecStorage == InitStorage /\ [][NextStorage]_vars

\* C30: once the effects of the latest commit have run, the storage holds
\* JSON.stringify(value) under the key, and no entry under the key when the
\* value is undefined.
C30_StoredIsStringified ==
  (storage.mounted /\ ~storage.effectPending) =>
    /\ storage.value = Undefined => storage.entries[storage.key] = Absent
    /\ storage.value # Undefined =>
         storage.entries[storage.key] = Stringify(storage.value)

\* the committed value is undefined and the effect has removed an entry that
\* the storage held under the key
C30_Witness ==
  /\ storage.mounted
  /\ ~storage.effectPending
  /\ storage.value = Undefined
  /\ storage.last = "removeItem"
  /\ storage.replaced \notin {Absent, InvalidJson}
  /\ storage.entries[storage.key] = Absent

\* ------------------------------------------------------ useAdvancedEffect
\* src/src/hooks/default/useAdvancedEffect.ts lines 41-64.  `advanced` is the
\* record
\*   firstRender      firstRender.current
\*   previousDepsRef  previousDepsRef.current, <<>> while it is undefined
\*   deps             the dependency list of the latest render
\*   lastDeps         the dependency list of the render before it, <<>> if none
\*   effectRan        effect() was called after the latest render

\* variant: only the first dependency is compared
HasFirstDepChanged(d, prev) == At(d, 0) # At(prev, 0)

\* lines 55-57: deps.some((dep, i) => dep !== previousDepsRef.current?.[i])
HasDepsChanged(d, prev) == \E i \in 0..(Len(d) - 1) : At(d, i) # At(prev, i)

\* lines 48-62: the useEffect callback of a render with the list d
AdvancedCallback(r, d) ==
  IF r.firstRender
  THEN [r EXCEPT !.firstRender = FALSE, !.previousDepsRef = d,
                 !.lastDeps = r.deps, !.deps = d, !.effectRan = FALSE]
  ELSE IF HasDepsChanged(d, r.previousDepsRef)
       THEN [r EXCEPT !.previousDepsRef = d,
                      !.lastDeps = r.deps, !.deps = d, !.effectRan = TRUE]
       ELSE [r EXCEPT !.lastDeps = r.deps, !.deps = d, !.effectRan = FALSE]

\* line 63: with the same `deps` array and the same `effect` function as in
\* the render before, React does not call the callback at all
AdvancedSkipped(r) == [r EXCEPT !.lastDeps = r.deps, !.effectRan = FALSE]

InitAdvanced ==
  /\ Construct(1, FALSE, 0, 0)
  /\ UpdatedEffectIdle
  /\ HooksIdle("advanced")
  /\ \E d \in DepLists :
       advanced = AdvancedCallback(
                    [firstRender |-> TRUE, previousDepsRef |-> <<>>,
                     deps |-> <<>>, lastDeps |-> <<>>, effectRan |-> FALSE],
                    d)

\* a re-render with the list d; sameObjects says that the caller passed the
\* array and the effect function of the render before (memoized)
useAdvancedEffect ==
  /\ \E d \in DepLists, sameObjects \in BOOLEAN :
       /\ sameObjects => d = advanced.deps
       /\ advanced' = IF sameObjects
                      THEN AdvancedSkipped(advanced)
                      ELSE AdvancedCallback(advanced, d)
  /\ Frame("advanced")

SpecAdvanced == InitAdvanced /\ [][useAdvancedEffect]_vars

\* C31: the effect is executed on a render exactly when that render is not the
\* first one and some dependency differs from the same position of the
\* previous render's list.
C31_EffectRunsExactlyOnChange ==
  advanced.effectRan <=>
    /\ advanced.lastDeps # <<>>
    /\ \E i \in 1..NumDeps : advanced.deps[i] # advanced.lastDeps[i]

\* the effect ran on a later render in which the first dependency is the
\* same and the last one differs
C31_Witness ==
  /\ advanced.effectRan
  /\ advanced.lastDeps # <<>>
  /\ advanced.deps[1] = advanced.lastDeps[1]
  /\ advanced.deps[NumDeps] # advanced.lastDeps[NumDeps]

\* ------------------------------------------------------------ usePrevious
\* src/src/hooks/state-management/usePrevious.ts lines 26-34 (the named
\* export).  `previous` is the record
\*   ref           ref.current
\*   value         the value passed on the latest render
\*   returned      what the latest render returned
\*   beforeChange  the value that `value` had before its most recent change,
\*                 Null while it has never changed
\*   renders       renders so far
MaxRenders == 10       \* renders explored

\* lines 27-33: one render with the value v: ref.current is returned as the
\* render reads it; the effect assigns it afterwards, when v is a new value
PreviousRender(r, v) ==
  [r EXCEPT !.returned = r.ref,
            !.ref = IF v # r.value THEN v ELSE @,
            !.value = v,
            !.beforeChange = IF v # r.value THEN r.value ELSE @,
            !.renders = @ + 1]

InitPrevious ==
  /\ Construct(1, FALSE, 0, 0)
  /\ UpdatedEffectIdle
  /\ HooksIdle("previous")
  /\ \E v \in Values :
       previous = [ref |-> v, value |-> v, returned |-> Null,
                   beforeChange |-> Null, renders |-> 1]

\* a re-render with the value v
usePrevious ==
  /\ previous.renders < MaxRenders
  /\ \E v \in Values : previous' = PreviousRender(previous, v)
  /\ Frame("previous")

SpecPrevious == InitPrevious /\ [][usePrevious]_vars

\* C32: every render returns the value that `value` had before its most
\* recent change, or null if the value has never changed, also on a render
\* whose value is the one of the render before.
C32_ReturnsValueBeforeChange == previous.returned = previous.beforeChange

\* ------------------------------------------- useHistory: eviction, pointer
\* entries the last call removed from the front of the timeline: what the
\* splice and the push of a writing set produce, less what is left
Evicted ==
  IF WasSet /\ Differed
  THEN Len(Splice(call.preHistory, call.prePointer)) + 1 - Len(historyRef)
  ELSE 0

\* C33: with a fixed capacity >= 1 a set call evicts at most one entry, evicts
\* one only when the pointer was at the tail and the timeline was full before
\* the call, and never evicts when the pointer was below the tail.
C33_AtMostOneEviction ==
  WasSet =>
    /\ Evicted \in {0, 1}
    /\ Evicted = 1 => (call.prePointer = PreLen - 1 /\ PreLen = capacity)
    /\ call.prePointer < PreLen - 1 => Evicted = 0

\* a set at the tail of a full timeline of two or more entries evicted one
C33_Witness ==
  /\ WasSet
  /\ Evicted = 1
  /\ capacity >= 2
  /\ PreLen = capacity
  /\ Len(historyRef) = capacity

\* React's setState(v): when no update is queued and v is the rendered state,
\* the call schedules no render (lines 42, 48 and 54 hand the entry at the new
\* pointer to setState)
BailsOut(queued, rendered, v) == queued = None /\ v = rendered

\* the step is a back, forward or go that moves pointerRef.current
Moves ==
  /\ call'.name \in {"back", "forward", "go"}
  /\ pointerRef' # pointerRef

\* C34: after every back, forward or go that moves the internal pointer, the
\* `pointer` returned to the caller equals the internal pointer, also when
\* the entry moved to equals the rendered state, so that setState receives an
\* unchanged value and no render follows the call.
C34_ReturnedPointerFollows ==
  [][(Moves /\ BailsOut(pending, state, pending')) => pointer' = pointerRef']_vars
====
